---- MODULE Spec2Model ----
(***************************************************************************)
(* Friend-request state machine and friend-gated private messaging of the  *)
(* server: controllers/friendController.js, models/FriendRequest.js,       *)
(* controllers/privateMessageController.js, socket/handlers.js and         *)
(* models/Conversation.js; the general channel (routes/chat.js,            *)
(* routes/audio.js, models/Message.js); the authentication of requests and *)
(* connections (middleware/auth.js, config/app.config.js); account         *)
(* deletion and the password reset (the account controller,                *)
(* models/VerificationCode.js).                                            *)
(*                                                                         *)
(* Every handler is an async function.  Each `await` of a store operation  *)
(* is a point where other handlers run, so a handler is modelled as one    *)
(* action per store operation: the action performs the store operation and *)
(* the synchronous code that follows it up to the next store operation     *)
(* (the first action of a handler also holds the validation that precedes  *)
(* its first store operation).                                             *)
(***************************************************************************)
EXTENDS Naturals, FiniteSets, Sequences, TLC

\* ------------------------------------------------------------------ bounds
UserIds == {1, 2, 3}          \* the user ids callers may name; Init says which exist
Procs == {1, 2}               \* handler invocations that can be in flight together
MaxRequests == 3              \* FriendRequest documents ever created
MaxConversations == 2         \* Conversation documents ever created
MaxMessages == 2              \* PrivateMessage documents ever created
MaxClock == 1                 \* readings of Date.now(): 0 .. MaxClock
MaxSockets == 3               \* socket connections ever attempted
MaxChannelMessages == 2       \* Message documents ever created
MaxCodes == 2                 \* VerificationCode documents ever created

NoId == 0                     \* a null reference

VARIABLES
  users,            \* ids of the existing User documents
  sockets,          \* the socket connections attempted and not yet closed
  messages,         \* the messages collection (the general channel)
  requests,         \* the friendrequests collection
  conversations,    \* the conversations collection
  privateMessages,  \* the privatemessages collection
  verificationCodes,\* the verificationcodes collection
  passwords,        \* the password of each User document
  events,           \* the events emitted so far, in order, each with the connections it went to
  clock,            \* Date.now()
  nextId,           \* ObjectIds handed out so far, per collection
  calls,            \* per handler invocation: operation, position, locals
  reply             \* what the latest handler step reported to its caller, if anything

vars == <<users, sockets, messages, requests, conversations, privateMessages, verificationCodes,
          passwords, events, clock, nextId, calls, reply>>

\* --------------------------------------------------------------- documents
Statuses == {"pending", "accepted", "declined", "cancelled"}

FriendRequestDoc(id, s, r, st, t) ==
  [id |-> id, sender |-> s, receiver |-> r, status |-> st, updatedAt |-> t]

\* The locals of a handler invocation: the operation, the position in it, the
\* caller (req.userId / socket.userId), the id named in the request, the entry
\* point and the connection the event came in on, the document a lookup returned,
\* the kind of content posted, and the conversation id, message id and
\* `new Date()` value held across awaits, and the reset code and new password
\* named in the request.  `seen` is history, not a local
\* of the code: the ids of the pending documents between the pair that existed
\* when sendFriendRequest made its lookup.
IdleCall ==
  [op |-> "none", pc |-> "idle", actor |-> NoId, arg |-> NoId, via |-> "none",
   sock |-> NoId, content |-> "none", doc |-> {}, conv |-> NoId, msg |-> NoId,
   stamp |-> 0, seen |-> {}, code |-> "none", password |-> "none"]

\* ---------------------------------------------------- socket connections
\* The room every admitted connection joins, and the room keyed by a user id.
GeneralRoom == <<"general", NoId>>

UserRoom(u) == <<"user", u>>

\* The credential of a handshake: none, one that fails verification, or a
\* token signed for user u.
NoToken == [kind |-> "none", userId |-> NoId]

InvalidToken == [kind |-> "invalid", userId |-> NoId]

ValidToken(u) == [kind |-> "valid", userId |-> u]

Tokens == {NoToken, InvalidToken} \cup {ValidToken(u) : u \in UserIds}

\* The credentials that fail jwt.verify, told apart by why: a string that is
\* not a JWT, a token past its expiry, and a token signed with another key.
MalformedToken == [kind |-> "malformed", userId |-> NoId]

ExpiredToken(u) == [kind |-> "expired", userId |-> u]

ForgedToken(u) == [kind |-> "forged", userId |-> u]

\* verifyJWTToken(token): the decoded user id, or nothing when jwt.verify
\* throws, which is rethrown as Error('Invalid token') whatever the reason.
verifyJWTToken(token) == IF token.kind = "valid" THEN {token.userId} ELSE {}

\* The message of the refusal: `!token` is answered before verification is
\* tried, every failure of the verification by the catch block.
AuthErrorMessage(token) ==
  IF token.kind = "none" THEN "No token provided" ELSE "Invalid token"

\* An admitted connection after handleConnection: the identity the middleware
\* bound to it and the rooms it joined.
Connection(id, u) ==
  [id |-> id, state |-> "connected", token |-> ValidToken(u), userId |-> u,
   rooms |-> {GeneralRoom, UserRoom(u)}]

\* The admitted connections bound to user u.
SocketsOf(u) == {sk.id : sk \in {x \in sockets : x.state = "connected" /\ x.userId = u}}

\* socket.emit(..): the event goes to that one connection, if it is still open.
SocketEmit(id) == {sk.id : sk \in {x \in sockets : x.id = id}}

\* io.to(room).emit(..): the event goes to every connection in the room.
RoomEmit(room) == {sk.id : sk \in {x \in sockets : room \in x.rooms}}

\* ------------------------------------------------- models/FriendRequest.js
\* The documents findOne({$or: [{sender: a, receiver: b}, {sender: b, receiver: a}]})
\* matches.  findOne returns one of them (null when there is none); which one,
\* when several match, is the store's choice.
RelationshipMatches(a, b) ==
  {d \in requests : \/ d.sender = a /\ d.receiver = b
                    \/ d.sender = b /\ d.receiver = a}

\* getExistingRelationship: the possible results, each a set holding the
\* returned document, or the empty set for null.
getExistingRelationship(a, b) ==
  IF RelationshipMatches(a, b) = {} THEN {{}}
  ELSE {{d} : d \in RelationshipMatches(a, b)}

\* The ids of the pending documents between a and b.
PendingIds(a, b) == {d.id : d \in {e \in RelationshipMatches(a, b) : e.status = "pending"}}

\* The unique index {sender: 1, receiver: 1}: an insert is rejected with
\* duplicate-key error 11000 when a document with the same ordered pair exists.
DuplicateKey(s, r) == \E d \in requests : d.sender = s /\ d.receiver = r

\* findFriends(userId): the accepted documents that involve userId.
findFriends(u) ==
  {d \in requests : d.status = "accepted" /\ (d.sender = u \/ d.receiver = u)}

\* findById(id)
findById(id) == {d \in requests : d.id = id}

\* --------------------------------------------- controllers/friendController.js
NoReply ==
  [op |-> "none", actor |-> NoId, arg |-> NoId, via |-> "none", result |-> "none",
   sock |-> NoId, to |-> {}, data |-> <<>>]

\* The results that report success: 200 and 201, or a socket handler that ran
\* to its end.
Successes == {"OK", "Created"}

\* An error event sent to every connection in the general room.
ErrorEmitBroadcast(c) == IF c.via = "socket" THEN RoomEmit(GeneralRoom) ELSE {}

\* socket.emit('error', ..): the connections the error event of invocation c
\* goes to (the HTTP routes answer their caller and emit nothing).
ErrorEmit(c) == IF c.via = "socket" THEN SocketEmit(c.sock) ELSE {}

\* The locals of a handler invocation at its start.
Call(op, actor, arg, via) ==
  [IdleCall EXCEPT !.op = op, !.actor = actor, !.arg = arg, !.via = via]

\* res.status(..).json(..) (socket handlers: the error event or the normal
\* end of the handler): invocation c of p reports r and ends.
Respond(p, c, r) ==
  /\ reply' = [op |-> c.op, actor |-> c.actor, arg |-> c.arg, via |-> c.via, result |-> r,
               sock |-> c.sock, to |-> IF r \in Successes THEN {} ELSE ErrorEmit(c),
               data |-> <<>>]
  /\ calls' = [calls EXCEPT ![p] = IdleCall]

\* res.json({.. data ..}): invocation c of p reports success with data and ends.
RespondWith(p, c, data) ==
  /\ reply' = [op |-> c.op, actor |-> c.actor, arg |-> c.arg, via |-> c.via, result |-> "OK",
               sock |-> c.sock, to |-> {}, data |-> data]
  /\ calls' = [calls EXCEPT ![p] = IdleCall]

\* The handler goes on to its next store operation at pc with locals c.
Continue(p, c, pc) ==
  /\ reply' = NoReply
  /\ calls' = [calls EXCEPT ![p] = [c EXCEPT !.pc = pc]]

\* The _id of a new FriendRequest document: ObjectIds are handed out in
\* increasing order and never reused.
NewRequestId == nextId.request + 1

\* sendFriendRequest: validation and User.findById(receiverId)
SendFindUser(p, s, r) ==
  /\ calls[p].pc = "idle"
  /\ LET c == Call("send", s, r, "http") IN
     IF s = r THEN Respond(p, c, "InvalidRequest")
     ELSE IF r \notin users THEN Respond(p, c, "NotFound")
     ELSE Continue(p, c, "sendGetExisting")
  /\ UNCHANGED <<verificationCodes, passwords, users, sockets, messages, requests, conversations,
               privateMessages, events, clock, nextId>>

\* sendFriendRequest: getExistingRelationship, the status tests and
\* new FriendRequest(..), whose updatedAt defaults to Date.now
SendGetExisting(p) ==
  /\ calls[p].pc = "sendGetExisting"
  /\ \E existingRequest \in getExistingRelationship(calls[p].actor, calls[p].arg) :
       IF \E d \in existingRequest : d.status = "pending" THEN
         IF \E d \in existingRequest : d.sender = calls[p].actor
         THEN Respond(p, calls[p], "RequestExistsSent")
         ELSE Respond(p, calls[p], "RequestExistsReceived")
       ELSE IF \E d \in existingRequest : d.status = "accepted" THEN
         Respond(p, calls[p], "AlreadyFriends")
       ELSE
         Continue(p, [calls[p] EXCEPT !.doc = existingRequest, !.stamp = clock,
                                      !.seen = PendingIds(calls[p].actor, calls[p].arg)],
                  "sendSave")
  /\ UNCHANGED <<verificationCodes, passwords, users, sockets, messages, requests, conversations,
               privateMessages, events, clock, nextId>>

\* sendFriendRequest: friendRequest.save() and the catch block
SendSave(p) ==
  /\ calls[p].pc = "sendSave"
  /\ IF DuplicateKey(calls[p].actor, calls[p].arg) THEN
       /\ Respond(p, calls[p], "DuplicateRequest")
       /\ UNCHANGED <<requests, nextId>>
     ELSE
       /\ nextId.request < MaxRequests
       /\ nextId' = [nextId EXCEPT !.request = NewRequestId]
       /\ requests' = requests \cup
            {FriendRequestDoc(NewRequestId, calls[p].actor, calls[p].arg, "pending",
                              calls[p].stamp)}
       /\ Respond(p, calls[p], "Created")
  /\ UNCHANGED <<verificationCodes, passwords, users, sockets, messages, conversations,
               privateMessages, events, clock>>

\* friendRequest.save() of a loaded document whose status was set to st and
\* whose updatedAt was set to the `new Date()` taken before the save was issued:
\* updates the stored document, or throws (caught: 500) when it is gone.
SaveStatus(p, st) ==
  IF findById(calls[p].arg) = {} THEN
    /\ Respond(p, calls[p], "InternalError")
    /\ UNCHANGED requests
  ELSE
    /\ requests' = {IF d.id = calls[p].arg
                    THEN [d EXCEPT !.status = st, !.updatedAt = calls[p].stamp] ELSE d : d \in requests}
    /\ Respond(p, calls[p], "OK")

\* acceptFriendRequest: validation, findById and the three tests
AcceptFind(p, u, id) ==
  /\ calls[p].pc = "idle"
  /\ LET friendRequest == findById(id)
         c == Call("accept", u, id, "http") IN
     IF friendRequest = {} THEN Respond(p, c, "NotFound")
     ELSE IF \E d \in friendRequest : d.receiver # u THEN Respond(p, c, "Forbidden")
     ELSE IF \E d \in friendRequest : d.status # "pending"
       THEN Respond(p, c, "InvalidStatus")
     ELSE Continue(p, [c EXCEPT !.stamp = clock], "acceptSave")
  /\ UNCHANGED <<verificationCodes, passwords, users, sockets, messages, requests, conversations,
               privateMessages, events, clock, nextId>>

\* acceptFriendRequest: friendRequest.save()
AcceptSave(p) ==
  /\ calls[p].pc = "acceptSave"
  /\ SaveStatus(p, "accepted")
  /\ UNCHANGED <<verificationCodes, passwords, users, sockets, messages, conversations,
               privateMessages, events, clock, nextId>>

\* declineFriendRequest: validation, findById and the receiver test
DeclineFind(p, u, id) ==
  /\ calls[p].pc = "idle"
  /\ LET friendRequest == findById(id)
         c == Call("decline", u, id, "http") IN
     IF friendRequest = {} THEN Respond(p, c, "NotFound")
     ELSE IF \E d \in friendRequest : d.receiver # u THEN Respond(p, c, "Forbidden")
     ELSE Continue(p, [c EXCEPT !.stamp = clock], "declineSave")
  /\ UNCHANGED <<verificationCodes, passwords, users, sockets, messages, requests, conversations,
               privateMessages, events, clock, nextId>>

\* declineFriendRequest: friendRequest.save()
DeclineSave(p) ==
  /\ calls[p].pc = "declineSave"
  /\ SaveStatus(p, "declined")
  /\ UNCHANGED <<verificationCodes, passwords, users, sockets, messages, conversations,
               privateMessages, events, clock, nextId>>

\* cancelFriendRequest: validation, findById and the sender test
CancelFind(p, u, id) ==
  /\ calls[p].pc = "idle"
  /\ LET friendRequest == findById(id)
         c == Call("cancel", u, id, "http") IN
     IF friendRequest = {} THEN Respond(p, c, "NotFound")
     ELSE IF \E d \in friendRequest : d.sender # u THEN Respond(p, c, "Forbidden")
     ELSE Continue(p, [c EXCEPT !.stamp = clock], "cancelSave")
  /\ UNCHANGED <<verificationCodes, passwords, users, sockets, messages, requests, conversations,
               privateMessages, events, clock, nextId>>

\* cancelFriendRequest: friendRequest.save()
CancelSave(p) ==
  /\ calls[p].pc = "cancelSave"
  /\ SaveStatus(p, "cancelled")
  /\ UNCHANGED <<verificationCodes, passwords, users, sockets, messages, conversations,
               privateMessages, events, clock, nextId>>

\* removeFriend: the documents its findOne matches (accepted, either direction)
AcceptedMatches(a, b) == {d \in RelationshipMatches(a, b) : d.status = "accepted"}

\* removeFriend: validation and findOne
RemoveFind(p, u, f) ==
  /\ calls[p].pc = "idle"
  /\ LET c == Call("remove", u, f, "http") IN
     IF AcceptedMatches(u, f) = {} THEN Respond(p, c, "NotFound")
     ELSE \E friendRequest \in AcceptedMatches(u, f) :
            Continue(p, [c EXCEPT !.doc = {friendRequest}], "removeDelete")
  /\ UNCHANGED <<verificationCodes, passwords, users, sockets, messages, requests, conversations,
               privateMessages, events, clock, nextId>>

\* A removeFriend that also deletes the conversation of the two users.
RemoveDeleteCascade(p) ==
  /\ calls[p].pc = "removeDelete"
  /\ requests' = {d \in requests : \A friendRequest \in calls[p].doc : d.id # friendRequest.id}
  /\ conversations' =
       {c \in conversations :
          ~({calls[p].actor, calls[p].arg} \subseteq {c.participants[1], c.participants[2]})}
  /\ Respond(p, calls[p], "OK")
  /\ UNCHANGED <<verificationCodes, passwords, users, sockets, messages, privateMessages, events,
               clock, nextId>>

\* A removeFriend that also deletes the private messages the two users exchanged.
RemoveDeletePurging(p) ==
  /\ calls[p].pc = "removeDelete"
  /\ requests' = {d \in requests : \A friendRequest \in calls[p].doc : d.id # friendRequest.id}
  /\ privateMessages' =
       {m \in privateMessages :
          \A c \in conversations :
            c.id = m.conversation =>
              ~({calls[p].actor, calls[p].arg} \subseteq {c.participants[1], c.participants[2]})}
  /\ Respond(p, calls[p], "OK")
  /\ UNCHANGED <<verificationCodes, passwords, users, sockets, messages, conversations, events,
               clock, nextId>>

\* removeFriend: findByIdAndDelete(friendRequest._id)
RemoveDelete(p) ==
  /\ calls[p].pc = "removeDelete"
  /\ requests' = {d \in requests : \A friendRequest \in calls[p].doc : d.id # friendRequest.id}
  /\ Respond(p, calls[p], "OK")
  /\ UNCHANGED <<verificationCodes, passwords, users, sockets, messages, conversations,
               privateMessages, events, clock, nextId>>

\* getFriends: the other participant of every document findFriends returns,
\* as a bag (user id -> number of entries in the list).
getFriends(u) ==
  [v \in UserIds |->
     Cardinality({d \in findFriends(u) : (IF d.sender = u THEN d.receiver ELSE d.sender) = v})]

\* ---------------------------------------------------- models/Conversation.js
\* [userId1, userId2].sort()
SortedParticipants(a, b) == IF a <= b THEN <<a, b>> ELSE <<b, a>>

\* findOne({participants: {$all: sortedParticipants}}): the documents matched
ConversationMatches(a, b) ==
  {c \in conversations : {a, b} \subseteq {c.participants[1], c.participants[2]}}

\* findForUser(userId): find({participants: userId}), the documents matched
\* (the sort orders them by lastMessageAt, latest first).
findForUser(u) == {c \in conversations : u \in {c.participants[1], c.participants[2]}}

\* The unique index {participants: 1} is a multikey index: every element of
\* the array is a key, so an insert is rejected when a stored conversation
\* already holds either participant.
DuplicateParticipant(a, b) ==
  \E c \in conversations : {a, b} \cap {c.participants[1], c.participants[2]} # {}

\* ------- controllers/privateMessageController.js and socket/handlers.js
\* The friendship test both entry points and the history query apply to the
\* document getExistingRelationship returned.
IsFriendship(friendship) == \E d \in friendship : d.status = "accepted"

\* socket.emit('error', ..) on the socket path, res.status(..).json on the HTTP
\* path: how a failure of kind r reaches the caller.
Failure(via, r) == IF via = "socket" /\ r = "InternalError" THEN "Failed" ELSE r

\* sendPrivateMessage / handleSendPrivateMessage: validation,
\* getExistingRelationship and the friendship test
PMCheckFriends(p, via, s, r) ==
  /\ calls[p].pc = "idle"
  /\ \E sock \in (IF via = "socket" THEN SocketsOf(s) ELSE {NoId}) :
       LET c == [Call("privateMessage", s, r, via) EXCEPT !.sock = sock] IN
       \E friendship \in getExistingRelationship(s, r) :
         IF ~IsFriendship(friendship) THEN Respond(p, c, "Forbidden")
         ELSE Continue(p, c, "pmFindConversation")
  /\ UNCHANGED <<verificationCodes, passwords, users, sockets, messages, requests, conversations,
               privateMessages, events, clock, nextId>>

\* sendPrivateMessage / handleSendPrivateMessage called with a payload that
\* has no receiverId or no content: the validation ends the handler
PMRejectPayload(p, via, s) ==
  /\ calls[p].pc = "idle"
  /\ \E sock \in (IF via = "socket" THEN SocketsOf(s) ELSE {NoId}) :
       Respond(p, [Call("privateMessage", s, NoId, via) EXCEPT !.sock = sock], "Invalid")
  /\ UNCHANGED <<verificationCodes, passwords, users, sockets, messages, requests, conversations,
               privateMessages, events, clock, nextId>>

\* Conversation.findOrCreate: the findOne; when it returns a document the
\* caller builds new PrivateMessage(..), whose timestamp defaults to Date.now
PMFindConversation(p) ==
  /\ calls[p].pc = "pmFindConversation"
  /\ IF ConversationMatches(calls[p].actor, calls[p].arg) = {}
     THEN Continue(p, calls[p], "pmCreateConversation")
     ELSE \E conversation \in ConversationMatches(calls[p].actor, calls[p].arg) :
            Continue(p, [calls[p] EXCEPT !.conv = conversation.id, !.stamp = clock],
                     "pmSaveMessage")
  /\ UNCHANGED <<verificationCodes, passwords, users, sockets, messages, requests, conversations,
               privateMessages, events, clock, nextId>>

\* Conversation.findOrCreate: conversation.save() of the new document; a
\* duplicate-key error propagates to the caller's catch block; otherwise the
\* caller builds new PrivateMessage(..)
PMCreateConversation(p) ==
  /\ calls[p].pc = "pmCreateConversation"
  /\ IF DuplicateParticipant(calls[p].actor, calls[p].arg) THEN
       /\ Respond(p, calls[p], Failure(calls[p].via, "InternalError"))
       /\ UNCHANGED <<conversations, nextId>>
     ELSE
       /\ nextId.conversation < MaxConversations
       /\ nextId' = [nextId EXCEPT !.conversation = @ + 1]
       /\ conversations' = conversations \cup
            {[id |-> nextId.conversation + 1,
              participants |-> SortedParticipants(calls[p].actor, calls[p].arg),
              lastMessage |-> NoId, lastMessageAt |-> clock]}
       /\ Continue(p, [calls[p] EXCEPT !.conv = nextId.conversation + 1, !.stamp = clock],
                   "pmSaveMessage")
  /\ UNCHANGED <<verificationCodes, passwords, users, sockets, messages, requests, privateMessages,
               events, clock>>

\* message.save(), then conversation.lastMessage / lastMessageAt are set
PMSaveMessage(p) ==
  /\ calls[p].pc = "pmSaveMessage"
  /\ nextId.message < MaxMessages
  /\ nextId' = [nextId EXCEPT !.message = @ + 1]
  /\ privateMessages' = privateMessages \cup
       {[id |-> nextId.message + 1, sender |-> calls[p].actor,
         conversation |-> calls[p].conv, timestamp |-> calls[p].stamp]}
  /\ Continue(p, [calls[p] EXCEPT !.msg = nextId.message + 1, !.stamp = clock],
              "pmSaveConversation")
  /\ UNCHANGED <<verificationCodes, passwords, users, sockets, messages, requests, conversations,
               events, clock>>

\* conversation.save(), then the response (HTTP) or the two emits (socket)
PMSaveConversation(p) ==
  /\ calls[p].pc = "pmSaveConversation"
  /\ IF \A c \in conversations : c.id # calls[p].conv THEN
       /\ Respond(p, calls[p], Failure(calls[p].via, "InternalError"))
       /\ UNCHANGED <<conversations, events>>
     ELSE
       /\ conversations' =
            {IF c.id = calls[p].conv
             THEN [c EXCEPT !.lastMessage = calls[p].msg, !.lastMessageAt = calls[p].stamp]
             ELSE c : c \in conversations}
       /\ events' =
            IF calls[p].via = "socket"
            THEN events \o
                   <<[event |-> "receivePrivateMessage", msg |-> calls[p].msg,
                      to |-> SocketEmit(calls[p].sock)],
                     [event |-> "receivePrivateMessage", msg |-> calls[p].msg,
                      to |-> RoomEmit(UserRoom(calls[p].arg))]>>
            ELSE events
       /\ Respond(p, calls[p], "Created")
  /\ UNCHANGED <<verificationCodes, passwords, users, sockets, messages, requests, privateMessages,
               clock, nextId>>

\* ------------------------- socket/handlers.js and routes/chat.js: the channel
\* The kinds of content a caller posts: text the schema accepts, nothing,
\* white space only, and text longer than the schema's maxlength.
Contents == {"text", "empty", "blank", "long"}

\* messageSchema: save() rejects content of more than 1000 characters.  The
\* validator `v || this.audioFile` rejects nothing: audioFile is a nested path,
\* which reads as an object on every document, so content that is empty after
\* the trim passes it.
SchemaAccepts(content) == content \in {"text", "blank"}

\* trim: true, and content.trim() on the HTTP path: what is stored of the
\* content posted.
Trim(content) == IF content = "blank" THEN "empty" ELSE content

\* The save step with the broadcast made before the outcome of the save is known.
ChannelSaveEmitFirst(p) ==
  /\ calls[p].pc = "channelSave"
  /\ nextId.channel < MaxChannelMessages
  /\ nextId' = [nextId EXCEPT !.channel = @ + 1]
  /\ events' = events \o
       <<[event |-> "receiveMessage", msg |-> nextId.channel + 1,
          to |-> RoomEmit(GeneralRoom)]>>
  /\ IF SchemaAccepts(calls[p].content) THEN
       /\ messages' = messages \cup
            {[id |-> nextId.channel + 1, sender |-> calls[p].actor,
              content |-> Trim(calls[p].content), timestamp |-> calls[p].stamp]}
       /\ Respond(p, calls[p], "Created")
     ELSE
       /\ Respond(p, calls[p], Failure(calls[p].via, "InternalError"))
       /\ UNCHANGED messages
  /\ UNCHANGED <<verificationCodes, passwords, users, sockets, requests, conversations,
               privateMessages, clock>>

\* The sendMessage event / POST /messages: validation and new Message(..),
\* whose timestamp defaults to Date.now
ChannelValidate(p, via, s, content) ==
  /\ calls[p].pc = "idle"
  /\ \E sock \in (IF via = "socket" THEN SocketsOf(s) ELSE {NoId}) :
       LET c == [Call("channelMessage", s, NoId, via) EXCEPT !.sock = sock, !.content = content] IN
       IF via = "socket" /\ content = "empty" THEN Respond(p, c, "Invalid")
       ELSE IF via = "http" /\ content \in {"empty", "blank", "long"} THEN Respond(p, c, "Invalid")
       ELSE Continue(p, [c EXCEPT !.stamp = clock], "channelSave")
  /\ UNCHANGED <<verificationCodes, passwords, users, sockets, messages, requests, conversations,
               privateMessages, events, clock, nextId>>

\* message.save(), then io.to('general').emit('receiveMessage', ..) and the
\* response, or the catch block when the save rejects
ChannelSave(p) ==
  /\ calls[p].pc = "channelSave"
  /\ IF SchemaAccepts(calls[p].content) THEN
       /\ nextId.channel < MaxChannelMessages
       /\ nextId' = [nextId EXCEPT !.channel = @ + 1]
       /\ messages' = messages \cup
            {[id |-> nextId.channel + 1, sender |-> calls[p].actor,
              content |-> Trim(calls[p].content), timestamp |-> calls[p].stamp]}
       /\ events' = events \o
            <<[event |-> "receiveMessage", msg |-> nextId.channel + 1,
               to |-> RoomEmit(GeneralRoom)]>>
       /\ Respond(p, calls[p], "Created")
     ELSE
       /\ Respond(p, calls[p], Failure(calls[p].via, "InternalError"))
       /\ UNCHANGED <<messages, events, nextId>>
  /\ UNCHANGED <<verificationCodes, passwords, users, sockets, requests, conversations,
               privateMessages, clock>>

Init ==
  /\ users = {1, 2}
  /\ sockets = {Connection(1, 1), Connection(2, 2)}
  /\ messages = {}
  /\ requests = {}
  /\ conversations = {}
  /\ privateMessages = {}
  /\ verificationCodes = {}
  /\ passwords = [u \in UserIds |-> "initial"]
  /\ events = <<>>
  /\ clock = 0
  /\ nextId = [request |-> 0, conversation |-> 0, message |-> 0, channel |-> 0, socket |-> 2,
              code |-> 0]
  /\ calls = [p \in Procs |-> IdleCall]
  /\ reply = NoReply

\* Date.now() advances.
Tick ==
  /\ clock < MaxClock
  /\ clock' = clock + 1
  /\ reply' = NoReply
  /\ UNCHANGED <<verificationCodes, passwords, users, sockets, messages, requests, conversations,
               privateMessages, events, nextId, calls>>

\* The request ids callers name: the id of any stored document, and one id
\* that names no document.
RequestIds == {d.id : d \in requests} \cup {NewRequestId}

\* The friend-request routes (routes/friends.js), handled by invocation p
FriendStep(p) ==
  \/ \E s \in users, r \in UserIds : SendFindUser(p, s, r)
  \/ SendGetExisting(p)
  \/ SendSave(p)
  \/ \E u \in users, id \in RequestIds : AcceptFind(p, u, id)
  \/ AcceptSave(p)
  \/ \E u \in users, id \in RequestIds : DeclineFind(p, u, id)
  \/ DeclineSave(p)
  \/ \E u \in users, id \in RequestIds : CancelFind(p, u, id)
  \/ CancelSave(p)
  \/ \E u \in users, f \in UserIds : RemoveFind(p, u, f)
  \/ RemoveDelete(p)

\* The private-message route and the sendPrivateMessage socket event,
\* handled by invocation p
MessageStep(p) ==
  \/ \E via \in {"http", "socket"}, s \in users :
       \E r \in users \ {s} : PMCheckFriends(p, via, s, r)
  \/ PMFindConversation(p)
  \/ PMCreateConversation(p)
  \/ PMSaveMessage(p)
  \/ PMSaveConversation(p)

\* Friend-request calls, overlapping in any way.
Next == \E p \in Procs : FriendStep(p)

Spec == Init /\ [][Next]_vars

\* acceptFriendRequest, handled by invocation p
AcceptStep(p) ==
  \/ \E u \in users, id \in RequestIds : AcceptFind(p, u, id)
  \/ AcceptSave(p)

\* Friend-request calls with time passing: an accept call overlaps any other
\* call; calls of the other operations do not overlap each other.
TimedNext ==
  \/ Tick
  \/ \E p \in Procs :
       \/ AcceptStep(p)
       \/ (\A q \in Procs \ {p} : calls[q].op \in {"none", "accept"}) /\ FriendStep(p)

TimedSpec == Init /\ [][TimedNext]_vars

\* Private messaging next to the friend-request routes: private sends overlap
\* each other; a friend-request call takes its steps while no other call is
\* in flight, and private sends may start and run between its steps.
MessagingNext ==
  \E p \in Procs :
    \/ MessageStep(p)
    \/ (\A q \in Procs \ {p} : calls[q].pc = "idle") /\ FriendStep(p)

MessagingSpec == Init /\ [][MessagingNext]_vars

\* Friend-request calls one after another: a call starts when no other call is
\* in flight.
SequentialNext ==
  \E p \in Procs : (\A q \in Procs \ {p} : calls[q].pc = "idle") /\ FriendStep(p)

SequentialSpec == Init /\ [][SequentialNext]_vars

\* Three users who are all friends of each other, each with one connection,
\* and nothing sent yet.
FriendsInit ==
  /\ users = {1, 2, 3}
  /\ sockets = {Connection(1, 1), Connection(2, 2), Connection(3, 3)}
  /\ messages = {}
  /\ requests = {FriendRequestDoc(1, 1, 2, "accepted", 0),
                 FriendRequestDoc(2, 1, 3, "accepted", 0),
                 FriendRequestDoc(3, 2, 3, "accepted", 0)}
  /\ conversations = {}
  /\ privateMessages = {}
  /\ verificationCodes = {}
  /\ passwords = [u \in UserIds |-> "initial"]
  /\ events = <<>>
  /\ clock = 0
  /\ nextId = [request |-> 3, conversation |-> 0, message |-> 0, channel |-> 0, socket |-> 3,
              code |-> 0]
  /\ calls = [p \in Procs |-> IdleCall]
  /\ reply = NoReply

\* Private sends among them, overlapping in any way.
ConversationNext == \E p \in Procs : MessageStep(p)

ConversationSpec == FriendsInit /\ [][ConversationNext]_vars

\* The sendMessage event and POST /messages, handled by invocation p
ChannelStep(p) ==
  \/ \E via \in {"http", "socket"}, s \in users, content \in Contents :
       ChannelValidate(p, via, s, content)
  \/ ChannelSave(p)

\* Channel messages posted over both entry points, overlapping in any way.
PostNext == \E p \in Procs : ChannelStep(p)

PostSpec == Init /\ [][PostNext]_vars

\* Channel messages posted over both entry points, overlapping in any way,
\* with time passing.
ChannelNext == Tick \/ \E p \in Procs : ChannelStep(p)

ChannelSpec == Init /\ [][ChannelNext]_vars

\* ---------------- routes/audio.js, routes/chat.js and models/Message.js
\* The ids a caller of DELETE /messages/:id names: the id of a stored message,
\* a well-formed ObjectId that never names a message, and a string that is
\* not an ObjectId.
MissingMessageId == MaxChannelMessages + 1

MalformedId == MaxChannelMessages + 2

MessageIds == {m.id : m \in messages} \cup {MissingMessageId, MalformedId}

\* DELETE /messages/:id: Message.findById(req.params.id), which rejects with a
\* CastError when the id is not an ObjectId, then the existence and the
\* ownership checks
DeleteFind(p, u, id) ==
  /\ calls[p].pc = "idle"
  /\ LET c == Call("delete", u, id, "http") IN
     IF id = MalformedId THEN Respond(p, c, "InternalError")
     ELSE IF \A m \in messages : m.id # id THEN Respond(p, c, "NotFound")
     ELSE IF \E m \in messages : m.id = id /\ m.sender # u THEN Respond(p, c, "Forbidden")
     ELSE Continue(p, [c EXCEPT !.msg = id], "deleteRemove")
  /\ UNCHANGED <<verificationCodes, passwords, users, sockets, messages, requests, conversations,
               privateMessages, events, clock, nextId>>

\* Message.findByIdAndDelete(req.params.id), then the 200 response (also when
\* the document is already gone)
DeleteRemove(p) ==
  /\ calls[p].pc = "deleteRemove"
  /\ messages' = {m \in messages : m.id # calls[p].msg}
  /\ Respond(p, calls[p], "OK")
  /\ UNCHANGED <<verificationCodes, passwords, users, sockets, requests, conversations,
               privateMessages, events, clock, nextId>>

\* find().sort({timestamp: -1}): the orders in which the documents of S can
\* come back, latest timestamp first; the order of documents with equal
\* timestamps is the store's choice.
SortedByTimestampDesc(S) ==
  {seq \in [1 .. Cardinality(S) -> S] :
     /\ \A i, j \in DOMAIN seq : i # j => seq[i] # seq[j]
     /\ \A i, j \in DOMAIN seq : i < j => seq[i].timestamp >= seq[j].timestamp}

\* .limit(k)
Take(seq, k) == SubSeq(seq, 1, IF k < Len(seq) THEN k ELSE Len(seq))

\* Array.prototype.reverse
Reverse(seq) == [i \in 1 .. Len(seq) |-> seq[Len(seq) + 1 - i]]

\* Message.getRecentMessages(limit): the possible results.
getRecentMessages(limit) == {Take(seq, limit) : seq \in SortedByTimestampDesc(messages)}

\* The limits a caller of GET /messages asks for.
Limits == 1 .. MaxChannelMessages

\* GET /messages?limit=k: getRecentMessages(k), reversed to oldest first; the
\* response lists the ids of the messages returned
RecentGet(p, u, k) ==
  /\ calls[p].pc = "idle"
  /\ \E recent \in getRecentMessages(k) :
       RespondWith(p, Call("recent", u, k, "http"),
                   [i \in DOMAIN recent |-> Reverse(recent)[i].id])
  /\ UNCHANGED <<verificationCodes, passwords, users, sockets, messages, requests, conversations,
               privateMessages, events, clock, nextId>>

\* Posts of text, deletions and history reads of the channel, handled by
\* invocation p
LedgerStep(p) ==
  \/ \E via \in {"http", "socket"}, s \in users : ChannelValidate(p, via, s, "text")
  \/ ChannelSave(p)
  \/ \E u \in users, id \in MessageIds : DeleteFind(p, u, id)
  \/ DeleteRemove(p)
  \/ \E u \in users, k \in Limits : RecentGet(p, u, k)

\* The channel ledger written, deleted from and read, overlapping in any way,
\* with time passing.
LedgerNext == Tick \/ \E p \in Procs : LedgerStep(p)

LedgerSpec == Init /\ [][LedgerNext]_vars

\* Users 1 and 2 are friends; user 1 is connected from two devices and user 2
\* from one.
DeliveryInit ==
  /\ users = {1, 2}
  /\ sockets = {Connection(1, 1), Connection(2, 1), Connection(3, 2)}
  /\ messages = {}
  /\ requests = {FriendRequestDoc(1, 1, 2, "accepted", 0)}
  /\ conversations = {}
  /\ privateMessages = {}
  /\ verificationCodes = {}
  /\ passwords = [u \in UserIds |-> "initial"]
  /\ events = <<>>
  /\ clock = 0
  /\ nextId = [request |-> 1, conversation |-> 0, message |-> 0, channel |-> 0, socket |-> 3,
              code |-> 0]
  /\ calls = [p \in Procs |-> IdleCall]
  /\ reply = NoReply

\* Private sends between them over both entry points, overlapping in any way,
\* with time passing.
DeliveryNext == Tick \/ \E p \in Procs : MessageStep(p)

DeliverySpec == DeliveryInit /\ [][DeliveryNext]_vars

\* ------------- controllers/privateMessageController.js: the history query
\* getConversationMessages: getExistingRelationship and the friendship test
HistoryCheckFriends(p, u, o) ==
  /\ calls[p].pc = "idle"
  /\ LET c == Call("history", u, o, "http") IN
     \E friendship \in getExistingRelationship(u, o) :
       IF ~IsFriendship(friendship) THEN Respond(p, c, "Forbidden")
       ELSE Continue(p, c, "historyFindBetween")
  /\ UNCHANGED <<verificationCodes, passwords, users, sockets, messages, requests, conversations,
               privateMessages, events, clock, nextId>>

\* A lookup that creates the conversation when there is none, as findOrCreate does.
HistoryFindBetweenCreating(p) ==
  /\ calls[p].pc = "historyFindBetween"
  /\ IF ConversationMatches(calls[p].actor, calls[p].arg) = {} THEN
       /\ nextId.conversation < MaxConversations
       /\ nextId' = [nextId EXCEPT !.conversation = @ + 1]
       /\ conversations' = conversations \cup
            {[id |-> nextId.conversation + 1,
              participants |-> SortedParticipants(calls[p].actor, calls[p].arg),
              lastMessage |-> NoId, lastMessageAt |-> clock]}
       /\ RespondWith(p, calls[p], <<>>)
     ELSE
       /\ \E conversation \in ConversationMatches(calls[p].actor, calls[p].arg) :
            Continue(p, [calls[p] EXCEPT !.conv = conversation.id], "historyGetMessages")
       /\ UNCHANGED <<conversations, nextId>>
  /\ UNCHANGED <<verificationCodes, passwords, users, sockets, messages, requests, privateMessages,
               events, clock>>

\* getConversationMessages: Conversation.findBetween, which only reads; with no
\* conversation the response is the empty list
HistoryFindBetween(p) ==
  /\ calls[p].pc = "historyFindBetween"
  /\ IF ConversationMatches(calls[p].actor, calls[p].arg) = {}
     THEN RespondWith(p, calls[p], <<>>)
     ELSE \E conversation \in ConversationMatches(calls[p].actor, calls[p].arg) :
            Continue(p, [calls[p] EXCEPT !.conv = conversation.id], "historyGetMessages")
  /\ UNCHANGED <<verificationCodes, passwords, users, sockets, messages, requests, conversations,
               privateMessages, events, clock, nextId>>

\* The limit of a history query that names none.
DefaultLimit == 50

\* PrivateMessage.getMessagesForConversation(conversationId, limit): the
\* possible results.
getMessagesForConversation(conversationId, limit) ==
  {Take(seq, limit) :
     seq \in SortedByTimestampDesc({m \in privateMessages : m.conversation = conversationId})}

\* getConversationMessages: getMessagesForConversation, reversed to oldest
\* first; the response lists the ids of the messages returned
HistoryGetMessages(p) ==
  /\ calls[p].pc = "historyGetMessages"
  /\ \E found \in getMessagesForConversation(calls[p].conv, DefaultLimit) :
       RespondWith(p, calls[p], [i \in DOMAIN found |-> Reverse(found)[i].id])
  /\ UNCHANGED <<verificationCodes, passwords, users, sockets, messages, requests, conversations,
               privateMessages, events, clock, nextId>>

\* GET /private-messages/conversation/:otherUserId, handled by invocation p
HistoryStep(p) ==
  \/ \E u \in users : \E o \in users \ {u} : HistoryCheckFriends(p, u, o)
  \/ HistoryFindBetween(p)
  \/ HistoryGetMessages(p)

\* Private sends over HTTP, history queries and removeFriend calls between two
\* friends, overlapping in any way.
HistoryNext ==
  \E p \in Procs :
    \/ \E s \in users : \E r \in users \ {s} : PMCheckFriends(p, "http", s, r)
    \/ PMFindConversation(p)
    \/ PMCreateConversation(p)
    \/ PMSaveMessage(p)
    \/ PMSaveConversation(p)
    \/ HistoryStep(p)
    \/ \E u \in users : \E f \in users \ {u} : RemoveFind(p, u, f)
    \/ RemoveDelete(p)

HistorySpec == DeliveryInit /\ [][HistoryNext]_vars

\* ------------------- config/app.config.js, app.js and socket/handlers.js

\* A client opens a connection presenting token: the handshake.
Handshake(token) ==
  /\ nextId.socket < MaxSockets
  /\ nextId' = [nextId EXCEPT !.socket = @ + 1]
  /\ sockets' = sockets \cup
       {[id |-> nextId.socket + 1, state |-> "handshake", token |-> token,
         userId |-> NoId, rooms |-> {}]}
  /\ reply' = NoReply
  /\ UNCHANGED <<verificationCodes, passwords, users, messages, requests, conversations,
               privateMessages, events, clock, calls>>

\* The middleware with every handshake let through.
AuthOutcomeUnverified(sk) ==
  {[sk EXCEPT !.state = "authenticated", !.userId = sk.token.userId]}

\* What io.use(socketAuthMiddleware) does with connection sk: next(new Error(..))
\* refuses the connection, next() lets it through with the decoded user id.
AuthOutcome(sk) ==
  IF sk.token.kind = "valid"
  THEN {[sk EXCEPT !.state = "authenticated", !.userId = sk.token.userId]}
  ELSE {}

\* io.use(socketAuthMiddleware) runs for a connection in its handshake
socketAuthMiddleware(id) ==
  /\ \E sk \in sockets :
       /\ sk.id = id /\ sk.state = "handshake"
       /\ sockets' = (sockets \ {sk}) \cup AuthOutcome(sk)
       /\ reply' = [op |-> "connect", actor |-> NoId, arg |-> id, via |-> "socket",
                    result |-> IF AuthOutcome(sk) = {} THEN "AuthError" ELSE "next",
                    sock |-> id, to |-> {},
                    data |-> IF AuthOutcome(sk) = {} THEN <<AuthErrorMessage(sk.token)>>
                             ELSE <<>>]
  /\ UNCHANGED <<verificationCodes, passwords, users, messages, requests, conversations,
               privateMessages, events, clock, nextId, calls>>

\* handleConnection with the join of the user's own room left out.
JoinedRoomsGeneralOnly(sk) == {GeneralRoom}

\* The rooms handleConnection makes socket sk join.
JoinedRooms(sk) == {GeneralRoom, UserRoom(sk.userId)}

\* io.on('connection'): handleConnection runs for a connection the middleware
\* let through
handleConnection(id) ==
  /\ \E sk \in sockets :
       /\ sk.id = id /\ sk.state = "authenticated"
       /\ sockets' = (sockets \ {sk}) \cup
            {[sk EXCEPT !.state = "connected", !.rooms = sk.rooms \cup JoinedRooms(sk)]}
  /\ reply' = [op |-> "connect", actor |-> NoId, arg |-> id, via |-> "socket",
               result |-> "connected",
               sock |-> id, to |-> {}, data |-> <<>>]
  /\ UNCHANGED <<verificationCodes, passwords, users, messages, requests, conversations,
               privateMessages, events, clock, nextId, calls>>

\* A disconnection that marks the connection closed and leaves it in its rooms.
handleDisconnectKeepRooms(id) ==
  /\ \E sk \in sockets :
       /\ sk.id = id /\ sk.state # "closed"
       /\ sockets' = (sockets \ {sk}) \cup {[sk EXCEPT !.state = "closed"]}
  /\ reply' = [op |-> "disconnect", actor |-> NoId, arg |-> id, via |-> "socket",
               result |-> "closed",
               sock |-> id, to |-> {}, data |-> <<>>]
  /\ UNCHANGED <<verificationCodes, passwords, users, messages, requests, conversations,
               privateMessages, events, clock, nextId, calls>>

\* The connection closes (client close, network loss or timeout): it leaves
\* all its rooms; nothing stored changes.
handleDisconnect(id) ==
  /\ \E sk \in sockets : sk.id = id /\ sockets' = sockets \ {sk}
  /\ reply' = [op |-> "disconnect", actor |-> NoId, arg |-> id, via |-> "socket",
               result |-> "closed",
               sock |-> id, to |-> {}, data |-> <<>>]
  /\ UNCHANGED <<verificationCodes, passwords, users, messages, requests, conversations,
               privateMessages, events, clock, nextId, calls>>

\* The server after start: users 1 and 2 exist, nobody is connected.
NoConnectionsInit ==
  /\ users = {1, 2}
  /\ sockets = {}
  /\ messages = {}
  /\ requests = {}
  /\ conversations = {}
  /\ privateMessages = {}
  /\ verificationCodes = {}
  /\ passwords = [u \in UserIds |-> "initial"]
  /\ events = <<>>
  /\ clock = 0
  /\ nextId = [request |-> 0, conversation |-> 0, message |-> 0, channel |-> 0, socket |-> 0,
              code |-> 0]
  /\ calls = [p \in Procs |-> IdleCall]
  /\ reply = NoReply

\* The ids of the connections attempted so far.
SocketIds == 1 .. MaxSockets

\* Connections being opened, authenticated, admitted and closed.
ConnectionNext ==
  \/ \E token \in Tokens : Handshake(token)
  \/ \E id \in SocketIds : socketAuthMiddleware(id)
  \/ \E id \in SocketIds : handleConnection(id)
  \/ \E id \in SocketIds : handleDisconnect(id)

ConnectionSpec == NoConnectionsInit /\ [][ConnectionNext]_vars

\* ------------------------------------------------------ middleware/auth.js
\* authenticateUser: a request carrying token reaches a protected route; 401
\* with a message, or next() with req.userId set to the decoded user id
authenticateUser(token) ==
  /\ reply' =
       IF verifyJWTToken(token) = {}
       THEN [op |-> "authenticate", actor |-> NoId, arg |-> NoId, via |-> "http",
             result |-> "AuthError", sock |-> NoId, to |-> {},
             data |-> <<AuthErrorMessage(token)>>]
       ELSE [op |-> "authenticate", actor |-> token.userId, arg |-> NoId, via |-> "http",
             result |-> "next", sock |-> NoId, to |-> {}, data |-> <<>>]
  /\ UNCHANGED <<verificationCodes, passwords, users, sockets, messages, requests, conversations,
               privateMessages, events, clock, nextId, calls>>

\* The credentials a client presents.
Credentials ==
  {NoToken, MalformedToken} \cup {ValidToken(u) : u \in users}
    \cup {ExpiredToken(u) : u \in users} \cup {ForgedToken(u) : u \in users}

\* Requests and connection attempts with any credential.
AuthNext ==
  \/ \E token \in Credentials : authenticateUser(token)
  \/ \E token \in Credentials : Handshake(token)
  \/ \E id \in SocketIds : socketAuthMiddleware(id)
  \/ \E id \in SocketIds : handleConnection(id)

AuthSpec == NoConnectionsInit /\ [][AuthNext]_vars

\* Users 1 and 2 are friends and connected; user 3 is nobody's friend and is
\* not connected.
LiveInit ==
  /\ users = {1, 2, 3}
  /\ sockets = {Connection(1, 1), Connection(2, 2)}
  /\ messages = {}
  /\ requests = {FriendRequestDoc(1, 1, 2, "accepted", 0)}
  /\ conversations = {}
  /\ privateMessages = {}
  /\ verificationCodes = {}
  /\ passwords = [u \in UserIds |-> "initial"]
  /\ events = <<>>
  /\ clock = 0
  /\ nextId = [request |-> 1, conversation |-> 0, message |-> 0, channel |-> 0, socket |-> 2,
              code |-> 0]
  /\ calls = [p \in Procs |-> IdleCall]
  /\ reply = NoReply

\* The contents that make a sendMessage handler fail: at its validation, and
\* at its save.
RejectedContents == {c \in Contents : c = "empty" \/ ~SchemaAccepts(c)}

\* The sendPrivateMessage event with any payload and the sendMessage event with
\* a payload that makes it fail (socket/handlers.js), handled by invocation p
SocketStep(p) ==
  \/ \E s \in users, content \in RejectedContents : ChannelValidate(p, "socket", s, content)
  \/ ChannelSave(p)
  \/ \E s \in users : PMRejectPayload(p, "socket", s)
  \/ \E s \in users : \E r \in users \ {s} : PMCheckFriends(p, "socket", s, r)
  \/ PMFindConversation(p)
  \/ PMCreateConversation(p)
  \/ PMSaveMessage(p)
  \/ PMSaveConversation(p)

\* Socket events handled, overlapping in any way.
HandlerNext == \E p \in Procs : SocketStep(p)

HandlerSpec == LiveInit /\ [][HandlerNext]_vars

\* Users 1 and 2 are friends, user 1 is connected from two devices and user 2
\* from one; user 1 has posted one channel message, received by all three
\* connections, and has sent user 2 one private message over HTTP.
StoredInit ==
  /\ users = {1, 2}
  /\ sockets = {Connection(1, 1), Connection(2, 1), Connection(3, 2)}
  /\ messages = {[id |-> 1, sender |-> 1, content |-> "text", timestamp |-> 0]}
  /\ requests = {FriendRequestDoc(1, 1, 2, "accepted", 0)}
  /\ conversations = {[id |-> 1, participants |-> SortedParticipants(1, 2),
                       lastMessage |-> 1, lastMessageAt |-> 0]}
  /\ privateMessages = {[id |-> 1, sender |-> 1, conversation |-> 1, timestamp |-> 0]}
  /\ verificationCodes = {}
  /\ passwords = [u \in UserIds |-> "initial"]
  /\ events = <<[event |-> "receiveMessage", msg |-> 1, to |-> {1, 2, 3}]>>
  /\ clock = 0
  /\ nextId = [request |-> 1, conversation |-> 1, message |-> 1, channel |-> 1, socket |-> 3,
              code |-> 0]
  /\ calls = [p \in Procs |-> IdleCall]
  /\ reply = NoReply

\* Channel posts of text that come in over sockets, handled by invocation p
SendStep(p) ==
  \/ \E s \in users : ChannelValidate(p, "socket", s, "text")
  \/ ChannelSave(p)

\* Those handlers running, overlapping in any way, while connections close.
LiveNext ==
  \/ \E p \in Procs : SendStep(p)
  \/ \E id \in SocketIds : handleDisconnect(id)

LiveSpec == StoredInit /\ [][LiveNext]_vars

\* message.save() succeeds and io.to('general').emit(..) throws, after the
\* event went out to some of the room's connections: control passes to the
\* catch block, which reports the failure
ChannelSaveFanOutThrows(p) ==
  /\ calls[p].pc = "channelSave"
  /\ SchemaAccepts(calls[p].content)
  /\ nextId.channel < MaxChannelMessages
  /\ nextId' = [nextId EXCEPT !.channel = @ + 1]
  /\ messages' = messages \cup
       {[id |-> nextId.channel + 1, sender |-> calls[p].actor,
         content |-> Trim(calls[p].content), timestamp |-> calls[p].stamp]}
  /\ \E reached \in SUBSET RoomEmit(GeneralRoom) :
       events' = events \o
         <<[event |-> "receiveMessage", msg |-> nextId.channel + 1, to |-> reached]>>
  /\ Respond(p, calls[p], Failure(calls[p].via, "InternalError"))
  /\ UNCHANGED <<verificationCodes, passwords, users, sockets, requests, conversations,
               privateMessages, clock>>

\* Channel posts over both entry points while connections close and the
\* fan-out may fail.
FaultNext ==
  \/ \E p \in Procs : ChannelStep(p)
  \/ \E p \in Procs : ChannelSaveFanOutThrows(p)
  \/ \E id \in SocketIds : handleDisconnect(id)

FaultSpec == Init /\ [][FaultNext]_vars

\* Every messaging and friend-request operation next to stored private
\* messages, one call after another, each handled by the first invocation slot.
\* The calls name existing users and stored documents, and the caller of accept,
\* decline, cancel and the channel delete is the user entitled to it.
\* The conversation of the two users exists from the start, so findOrCreate
\* finds it and never creates one.
ArchiveNext ==
  \E p \in {q \in Procs : \A o \in Procs : q <= o} :
    \/ \E s \in users : \E r \in users \ {s} : PMCheckFriends(p, "http", s, r)
    \/ PMFindConversation(p)
    \/ PMSaveMessage(p)
    \/ PMSaveConversation(p)
    \/ \E s \in users : \E r \in users \ {s} : SendFindUser(p, s, r)
    \/ SendGetExisting(p)
    \/ SendSave(p)
    \/ \E d \in requests : AcceptFind(p, d.receiver, d.id)
    \/ AcceptSave(p)
    \/ \E d \in requests : DeclineFind(p, d.receiver, d.id)
    \/ DeclineSave(p)
    \/ \E d \in requests : CancelFind(p, d.sender, d.id)
    \/ CancelSave(p)
    \/ \E u \in users : \E f \in users \ {u} : RemoveFind(p, u, f)
    \/ RemoveDelete(p)
    \/ \E s \in users : ChannelValidate(p, "http", s, "text")
    \/ ChannelSave(p)
    \/ \E m \in messages : DeleteFind(p, m.sender, m.id)
    \/ DeleteRemove(p)

ArchiveSpec == StoredInit /\ [][ArchiveNext]_vars

\* ------------------------------- deleteAccount (the account controller)
\* deleteAccount: User.findById(req.userId)
DeleteAccountFindUser(p, u) ==
  /\ calls[p].pc = "idle"
  /\ LET c == Call("deleteAccount", u, NoId, "http") IN
     IF u \notin users THEN Respond(p, c, "NotFound")
     ELSE Continue(p, c, "deleteAccountMessages")
  /\ UNCHANGED <<verificationCodes, passwords, users, sockets, messages, requests, conversations,
               privateMessages, events, clock, nextId>>

\* deleteAccount: Message.deleteMany({sender: userId})
DeleteAccountMessages(p) ==
  /\ calls[p].pc = "deleteAccountMessages"
  /\ messages' = {m \in messages : m.sender # calls[p].actor}
  /\ Continue(p, calls[p], "deleteAccountFindConversations")
  /\ UNCHANGED <<verificationCodes, passwords, users, sockets, requests, conversations,
               privateMessages, events, clock, nextId>>

\* deleteAccount: Conversation.find({participants: userId}); conversationIds is
\* held from here on
DeleteAccountFindConversations(p) ==
  /\ calls[p].pc = "deleteAccountFindConversations"
  /\ Continue(p, [calls[p] EXCEPT !.doc = findForUser(calls[p].actor)],
              IF findForUser(calls[p].actor) = {} THEN "deleteAccountConversations"
              ELSE "deleteAccountPrivateMessages")
  /\ UNCHANGED <<verificationCodes, passwords, users, sockets, messages, requests, conversations,
               privateMessages, events, clock, nextId>>

\* deleteAccount: PrivateMessage.deleteMany({conversation: {$in: conversationIds}})
DeleteAccountPrivateMessages(p) ==
  /\ calls[p].pc = "deleteAccountPrivateMessages"
  /\ privateMessages' =
       {m \in privateMessages : \A c \in calls[p].doc : m.conversation # c.id}
  /\ Continue(p, calls[p], "deleteAccountConversations")
  /\ UNCHANGED <<verificationCodes, passwords, users, sockets, messages, requests, conversations,
               events, clock, nextId>>

\* deleteAccount: Conversation.deleteMany({participants: userId})
DeleteAccountConversations(p) ==
  /\ calls[p].pc = "deleteAccountConversations"
  /\ conversations' = conversations \ findForUser(calls[p].actor)
  /\ Continue(p, [calls[p] EXCEPT !.doc = {}], "deleteAccountRequests")
  /\ UNCHANGED <<verificationCodes, passwords, users, sockets, messages, requests, privateMessages,
               events, clock, nextId>>

\* deleteAccount: FriendRequest.deleteMany({$or: [{sender: userId}, {receiver: userId}]})
DeleteAccountRequests(p) ==
  /\ calls[p].pc = "deleteAccountRequests"
  /\ requests' = {d \in requests : d.sender # calls[p].actor /\ d.receiver # calls[p].actor}
  /\ Continue(p, calls[p], "deleteAccountCodes")
  /\ UNCHANGED <<verificationCodes, passwords, users, sockets, messages, conversations,
               privateMessages, events, clock, nextId>>

\* deleteAccount: VerificationCode.deleteMany({email: user.email})
DeleteAccountCodes(p) ==
  /\ calls[p].pc = "deleteAccountCodes"
  /\ verificationCodes' = {d \in verificationCodes : d.email # calls[p].actor}
  /\ Continue(p, calls[p], "deleteAccountUser")
  /\ UNCHANGED <<users, sockets, messages, requests, conversations, privateMessages, passwords, events, clock, nextId>>

\* deleteAccount: User.findByIdAndDelete(userId) and the 200 response
DeleteAccountUser(p) ==
  /\ calls[p].pc = "deleteAccountUser"
  /\ users' = users \ {calls[p].actor}
  /\ Respond(p, calls[p], "OK")
  /\ UNCHANGED <<verificationCodes, passwords, sockets, messages, requests, conversations,
               privateMessages, events, clock, nextId>>

\* The users who logged in before the start: a token stays valid until it
\* expires, whatever happens to the account it was issued for.
TokenHolders == {1, 2}

\* Account deletions next to private sends over HTTP and sendFriendRequest
\* calls, overlapping in any way; the callers are the holders of a token.
AccountNext ==
  \E p \in Procs :
    \/ \E u \in TokenHolders : DeleteAccountFindUser(p, u)
    \/ DeleteAccountMessages(p)
    \/ DeleteAccountFindConversations(p)
    \/ DeleteAccountPrivateMessages(p)
    \/ DeleteAccountConversations(p)
    \/ DeleteAccountRequests(p)
    \/ DeleteAccountCodes(p)
    \/ DeleteAccountUser(p)
    \/ \E s \in TokenHolders : \E r \in TokenHolders \ {s} : PMCheckFriends(p, "http", s, r)
    \/ PMFindConversation(p)
    \/ PMCreateConversation(p)
    \/ PMSaveMessage(p)
    \/ PMSaveConversation(p)
    \/ \E s \in TokenHolders, r \in UserIds : SendFindUser(p, s, r)
    \/ SendGetExisting(p)
    \/ SendSave(p)

AccountSpec == DeliveryInit /\ [][AccountNext]_vars

\* ------- password reset (the account controller), utils/emailService.js
\* ------- and models/VerificationCode.js
\* A user's email address is identified with the user's id.  Only codes of
\* type 'password_reset' are modelled.

\* generateCode(): a random six-digit string.
Codes == {"123456", "654321"}

\* The new passwords a caller of reset-password asks for (six characters or
\* more, confirmation matching).
NewPasswords == {"newpass1", "newpass2"}

\* expiresAt: new Date(Date.now() + 10 * 60 * 1000), in readings of the clock.
CodeLifetime == 1

\* findOne({email, code, type, expiresAt: {$gt: new Date()}}): the documents matched
UnexpiredCodes(email, code) ==
  {d \in verificationCodes : d.email = email /\ d.code = code /\ d.expiresAt > clock}

\* forgotPassword: validation, User.findByEmail and generateCode()
ForgotFindUser(p, u) ==
  /\ calls[p].pc = "idle"
  /\ LET c == Call("forgotPassword", u, NoId, "http") IN
     IF u \notin users THEN Respond(p, c, "NotFound")
     ELSE \E code \in Codes : Continue(p, [c EXCEPT !.code = code], "forgotSendMail")
  /\ UNCHANGED <<users, sockets, messages, requests, conversations, privateMessages, verificationCodes,
               passwords, events, clock, nextId>>

\* sendVerificationCode: transporter.sendMail(..), then new VerificationCode(..)
\* with its expiresAt
ForgotSendMail(p) ==
  /\ calls[p].pc = "forgotSendMail"
  /\ Continue(p, [calls[p] EXCEPT !.stamp = clock + CodeLifetime], "forgotSaveCode")
  /\ UNCHANGED <<users, sockets, messages, requests, conversations, privateMessages, verificationCodes,
               passwords, events, clock, nextId>>

\* sendVerificationCode: verificationCode.save(), then the 200 response
ForgotSaveCode(p) ==
  /\ calls[p].pc = "forgotSaveCode"
  /\ nextId.code < MaxCodes
  /\ nextId' = [nextId EXCEPT !.code = @ + 1]
  /\ verificationCodes' = verificationCodes \cup
       {[id |-> nextId.code + 1, email |-> calls[p].actor, code |-> calls[p].code,
         expiresAt |-> calls[p].stamp]}
  /\ Respond(p, calls[p], "OK")
  /\ UNCHANGED <<users, sockets, messages, requests, conversations, privateMessages, passwords, events, clock>>

\* verifyResetCode: validation and User.findByEmail
VerifyFindUser(p, u, code) ==
  /\ calls[p].pc = "idle"
  /\ LET c == [Call("verifyResetCode", u, NoId, "http") EXCEPT !.code = code] IN
     IF u \notin users THEN Respond(p, c, "NotFound")
     ELSE Continue(p, c, "verifyCode")
  /\ UNCHANGED <<users, sockets, messages, requests, conversations, privateMessages, verificationCodes,
               passwords, events, clock, nextId>>

\* verifyResetCode: verifyCode(user.email, code, 'password_reset', false), which
\* deletes nothing, and the response
VerifyCode(p) ==
  /\ calls[p].pc = "verifyCode"
  /\ IF UnexpiredCodes(calls[p].actor, calls[p].code) = {}
     THEN Respond(p, calls[p], "InvalidCode")
     ELSE Respond(p, calls[p], "OK")
  /\ UNCHANGED <<users, sockets, messages, requests, conversations, privateMessages, verificationCodes,
               passwords, events, clock, nextId>>

\* resetPassword: validation and User.findByEmail
ResetFindUser(p, u, code, newPassword) ==
  /\ calls[p].pc = "idle"
  /\ LET c == [Call("resetPassword", u, NoId, "http") EXCEPT !.code = code,
                                                             !.password = newPassword] IN
     IF u \notin users THEN Respond(p, c, "NotFound")
     ELSE Continue(p, c, "resetVerifyCode")
  /\ UNCHANGED <<users, sockets, messages, requests, conversations, privateMessages, verificationCodes,
               passwords, events, clock, nextId>>

\* resetPassword: verifyCode(user.email, code, 'password_reset', false)
ResetVerifyCode(p) ==
  /\ calls[p].pc = "resetVerifyCode"
  /\ IF UnexpiredCodes(calls[p].actor, calls[p].code) = {}
     THEN Respond(p, calls[p], "InvalidCode")
     ELSE Continue(p, calls[p], "resetSavePassword")
  /\ UNCHANGED <<users, sockets, messages, requests, conversations, privateMessages, verificationCodes,
               passwords, events, clock, nextId>>

\* resetPassword: user.password = newPassword and user.save(), which throws
\* (caught: 500) when the user document is gone
ResetSavePassword(p) ==
  /\ calls[p].pc = "resetSavePassword"
  /\ IF calls[p].actor \notin users THEN
       /\ Respond(p, calls[p], "InternalError")
       /\ UNCHANGED passwords
     ELSE
       /\ passwords' = [passwords EXCEPT ![calls[p].actor] = calls[p].password]
       /\ Continue(p, calls[p], "resetDeleteCode")
  /\ UNCHANGED <<users, sockets, messages, requests, conversations, privateMessages, verificationCodes,
               events, clock, nextId>>

\* resetPassword: VerificationCode.deleteOne({email, code, type}), which deletes
\* one of the documents it matches, and the 200 response
ResetDeleteCode(p) ==
  /\ calls[p].pc = "resetDeleteCode"
  /\ LET matched == {d \in verificationCodes :
                       d.email = calls[p].actor /\ d.code = calls[p].code} IN
     IF matched = {} THEN UNCHANGED verificationCodes
     ELSE \E d \in matched : verificationCodes' = verificationCodes \ {d}
  /\ Respond(p, calls[p], "OK")
  /\ UNCHANGED <<users, sockets, messages, requests, conversations, privateMessages, passwords, events, clock, nextId>>

\* POST /auth/forgot-password, /auth/verify-reset-code and /auth/reset-password,
\* handled by invocation p
ResetStep(p) ==
  \/ \E u \in UserIds : ForgotFindUser(p, u)
  \/ ForgotSendMail(p)
  \/ ForgotSaveCode(p)
  \/ \E u \in UserIds, code \in Codes : VerifyFindUser(p, u, code)
  \/ VerifyCode(p)
  \/ \E u \in UserIds, code \in Codes, newPassword \in NewPasswords :
       ResetFindUser(p, u, code, newPassword)
  \/ ResetVerifyCode(p)
  \/ ResetSavePassword(p)
  \/ ResetDeleteCode(p)

\* Password resets, overlapping in any way, with time passing.
ResetNext == Tick \/ \E p \in Procs : ResetStep(p)

ResetSpec == Init /\ [][ResetNext]_vars

\* ------------------------------------------------------------------ claims
PendingBetween(a, b) == \E d \in RelationshipMatches(a, b) : d.status = "pending"

\* The results of sendFriendRequest that report a conflict.
ConflictResults ==
  {"RequestExistsSent", "RequestExistsReceived", "AlreadyFriends", "DuplicateRequest"}

\* C1: in every reachable state at most one FriendRequest document exists for
\* any unordered pair of users, counting both directions together.
AtMostOneRequestPerPair ==
  \A a \in UserIds, b \in UserIds : Cardinality(RelationshipMatches(a, b)) <= 1

\* C2: a sendFriendRequest(S,R) or sendFriendRequest(R,S) that makes its
\* lookup while a pending FriendRequest between S and R exists creates no
\* document and ends with a conflict result, at the lookup or at the save, for
\* as long as that document is pending.
SecondSendConflicts ==
  [][\A p \in Procs :
       /\ ( /\ calls[p].pc = "sendGetExisting"
            /\ calls'[p] # calls[p]
            /\ PendingBetween(calls[p].actor, calls[p].arg) )
          => /\ requests' = requests
             /\ \/ reply'.op = "send" /\ reply'.result \in ConflictResults
                \/ calls'[p].pc = "sendSave"
       /\ ( /\ calls[p].pc = "sendSave"
            /\ calls'[p] # calls[p]
            /\ \E d \in requests : d.id \in calls[p].seen /\ d.status = "pending" )
          => /\ requests' = requests
             /\ reply'.op = "send" /\ reply'.result \in ConflictResults
    ]_vars

\* C3: a sendFriendRequest(S,R) whose lookup found a FriendRequest between S
\* and R, in any status and either direction, creates no document and ends with
\* a conflict result.
SendConflictsOnAnyRecord ==
  [][\A p \in Procs :
       /\ ( /\ calls[p].pc = "sendGetExisting"
            /\ calls'[p] # calls[p]
            /\ RelationshipMatches(calls[p].actor, calls[p].arg) # {} )
          => /\ requests' = requests
             /\ \/ reply'.op = "send" /\ reply'.result \in ConflictResults
                \/ calls'[p].pc = "sendSave" /\ calls'[p].doc # {}
       /\ ( /\ calls[p].pc = "sendSave"
            /\ calls'[p] # calls[p]
            /\ calls[p].doc # {} )
          => /\ requests' = requests
             /\ reply'.op = "send" /\ reply'.result \in ConflictResults
    ]_vars

\* C4: every change of a document's status is a step from pending to accepted,
\* declined or cancelled, and an accepted document stops existing only in a
\* step of removeFriend.
StatusStateMachine ==
  [][\A d \in requests :
       /\ \A e \in requests' :
            e.id = d.id /\ e.status # d.status
              => d.status = "pending" /\ e.status \in {"accepted", "declined", "cancelled"}
       /\ (d.status = "accepted" /\ \A e \in requests' : e.id # d.id)
            => reply'.op = "remove" /\ reply'.result = "OK"
    ]_vars

\* What the contract of accept and decline (actor must be the receiver) and of
\* cancel (actor must be the sender) prescribes for a call naming request id.
Prescribed(id, actor, role) ==
  IF findById(id) = {} THEN "NotFound"
  ELSE IF \E d \in findById(id) : (IF role = "receiver" THEN d.receiver ELSE d.sender) # actor
    THEN "Forbidden"
  ELSE IF \E d \in findById(id) : d.status # "pending" THEN "InvalidStatus"
  ELSE "proceed"

\* The contract of operation op, which turns a pending document into status st
\* and is reserved to the document's `role`: a call ends at its lookup with the
\* prescribed failure and changes nothing, or goes on to its save exactly when
\* nothing is prescribed against it; a call succeeds, and a document's status
\* is written as st, only in the save of a call by the document's `role` on a
\* document that is pending when it is written, and the save writes the time
\* the call took before saving.
ResponseContract(op, st, role) ==
  /\ (reply'.op = op /\ reply'.result \notin {"OK", "InternalError"})
       => /\ requests' = requests
          /\ reply'.result = Prescribed(reply'.arg, reply'.actor, role)
  /\ \A p \in Procs :
       (calls[p].pc = "idle" /\ calls'[p].op = op /\ calls'[p].pc # "idle")
         => /\ requests' = requests
            /\ Prescribed(calls'[p].arg, calls'[p].actor, role) = "proceed"
            /\ calls'[p].stamp = clock
  /\ \A d \in requests : \A e \in requests' :
       (e.id = d.id /\ e.status = st /\ e # d)
         => /\ d.status = "pending"
            /\ \E p \in Procs :
                 /\ calls[p].op = op /\ calls[p].arg = d.id /\ calls'[p].pc = "idle"
                 /\ calls[p].actor = (IF role = "receiver" THEN d.receiver ELSE d.sender)
                 /\ reply'.op = op /\ reply'.result = "OK"
                 /\ e.updatedAt = calls[p].stamp
  /\ (reply'.op = op /\ reply'.result = "OK")
       => /\ Prescribed(reply'.arg, reply'.actor, role) = "proceed"
          /\ \E e \in requests' : e.id = reply'.arg /\ e.status = st

\* C5: accept fails NotFound, Forbidden (actor is not the receiver) or
\* InvalidStatus (the document is not pending) and changes nothing; a document
\* is written as accepted, with updatedAt stamped, only by an accept call of
\* its receiver while it is pending.
AcceptContract == [][ResponseContract("accept", "accepted", "receiver")]_vars

\* C6: decline fails NotFound, Forbidden (actor is not the receiver) or
\* InvalidStatus (the document is not pending) and changes nothing; only a
\* pending document becomes declined.
DeclineContract == [][ResponseContract("decline", "declined", "receiver")]_vars

\* C7: cancel succeeds only for the sender and only on a pending document,
\* which becomes cancelled; it fails Forbidden for any other actor and
\* InvalidStatus for a non-pending document, and then changes nothing.
CancelContract == [][ResponseContract("cancel", "cancelled", "sender")]_vars

\* C8: a private send, over the socket or over HTTP, is refused (Forbidden,
\* nothing stored, nothing emitted) when no accepted FriendRequest between
\* sender and receiver exists, and is not refused when one exists.
PrivateMessageGate ==
  [][ /\ (reply'.op = "privateMessage" /\ reply'.result = "Forbidden")
           => /\ AcceptedMatches(reply'.actor, reply'.arg) = {}
              /\ UNCHANGED <<conversations, privateMessages, events>>
      /\ \A p \in Procs :
           (calls[p].pc = "idle" /\ calls'[p].pc = "pmFindConversation")
             => AcceptedMatches(calls'[p].actor, calls'[p].arg) # {}
    ]_vars

\* C9: in every reachable state the friendship test passes for (A,B), whatever
\* document getExistingRelationship returns, exactly when an accepted
\* FriendRequest between A and B exists, which is exactly when B is in A's
\* friends list.
FriendshipTestMatchesFriendsList ==
  \A a \in users : \A b \in users \ {a} :
    /\ \A friendship \in getExistingRelationship(a, b) :
         IsFriendship(friendship) <=> AcceptedMatches(a, b) # {}
    /\ AcceptedMatches(a, b) # {} <=> getFriends(a)[b] > 0

\* C10: right after a successful accept each party is in the other's friends
\* list exactly once; right after a successful removeFriend neither is in the
\* other's list.
FriendsListAfterAcceptAndRemove ==
  /\ (reply.op = "accept" /\ reply.result = "OK")
       => \A d \in findById(reply.arg) :
            getFriends(d.sender)[d.receiver] = 1 /\ getFriends(d.receiver)[d.sender] = 1
  /\ (reply.op = "remove" /\ reply.result = "OK")
       => getFriends(reply.actor)[reply.arg] = 0 /\ getFriends(reply.arg)[reply.actor] = 0

\* With the friendrequests collection holding R, a sendFriendRequest(s, r)
\* that runs alone can end in Created: its lookup can return null or a document
\* that is neither pending nor accepted, and its save is no duplicate key.
SendCanSucceedIn(R, s, r) ==
  LET M == {d \in R : \/ d.sender = s /\ d.receiver = r
                      \/ d.sender = r /\ d.receiver = s} IN
  /\ M = {} \/ \E d \in M : d.status \in {"declined", "cancelled"}
  /\ ~\E d \in R : d.sender = s /\ d.receiver = r

\* C11: removeFriend(U,V) answers NotFound and changes nothing exactly when no
\* accepted document between U and V exists; otherwise it deletes an accepted
\* document between them, and in the state it leaves a sendFriendRequest from
\* U to V and one from V to U can each succeed.
RemoveFriendContract ==
  [][ /\ (reply'.op = "remove" /\ reply'.result = "NotFound")
           => /\ requests' = requests
              /\ AcceptedMatches(reply'.actor, reply'.arg) = {}
      /\ \A p \in Procs :
           (calls[p].pc = "idle" /\ calls'[p].op = "remove" /\ calls'[p].pc # "idle")
             => /\ requests' = requests
                /\ AcceptedMatches(calls'[p].actor, calls'[p].arg) # {}
      /\ (reply'.op = "remove" /\ reply'.result = "OK")
           => /\ \E d \in AcceptedMatches(reply'.actor, reply'.arg) : requests' = requests \ {d}
              /\ SendCanSucceedIn(requests', reply'.actor, reply'.arg)
              /\ SendCanSucceedIn(requests', reply'.arg, reply'.actor)
    ]_vars

\* The ids of the conversations between a and b.
ConversationIds(a, b) == {c.id : c \in ConversationMatches(a, b)}

\* C12: when findOrCreate(A,B) calls overlap, a call that reaches its save
\* after another call created the pair's conversation surfaces no error: it
\* returns that conversation's id; and the pair never has two conversations.
ConcurrentFindOrCreate ==
  [][ /\ \A p \in Procs :
           ( /\ calls[p].pc = "pmCreateConversation"
             /\ calls'[p] # calls[p]
             /\ ConversationMatches(calls[p].actor, calls[p].arg) # {} )
             => /\ calls'[p].pc = "pmSaveMessage"
                /\ calls'[p].conv \in ConversationIds(calls[p].actor, calls[p].arg)
      /\ \A a \in UserIds, b \in UserIds : Cardinality(ConversationMatches(a, b)') <= 1
    ]_vars

\* C13: a findOrCreate(A,B) or findOrCreate(B,A) for A # B returns the pair's
\* conversation when one exists and creates and returns it when none exists,
\* and no state holds two conversations for an unordered pair.
FindOrCreateIdempotent ==
  [][ /\ \A p \in Procs :
           /\ ( /\ calls[p].pc = "pmFindConversation"
                /\ calls'[p] # calls[p]
                /\ ConversationMatches(calls[p].actor, calls[p].arg) # {} )
                => /\ calls'[p].pc = "pmSaveMessage"
                   /\ calls'[p].conv \in ConversationIds(calls[p].actor, calls[p].arg)
                   /\ conversations' = conversations
           /\ ( /\ calls[p].pc = "pmCreateConversation"
                /\ calls'[p] # calls[p]
                /\ ConversationMatches(calls[p].actor, calls[p].arg) = {} )
                => /\ calls'[p].pc = "pmSaveMessage"
                   /\ calls'[p].conv \in ConversationIds(calls[p].actor, calls[p].arg)'
      /\ \A a \in UserIds, b \in UserIds : Cardinality(ConversationMatches(a, b)') <= 1
    ]_vars

\* The positions in events of the events named e.
EventsNamed(e) == {i \in DOMAIN events : events[i].event = e}

\* C14: every receiveMessage event carries a stored channel message and is
\* emitted, to the general room, in the step in which that message's save
\* succeeded; a channel post that ends in a failure emits nothing and stores
\* nothing.
FanOutAfterLedgerWrite ==
  [][ /\ \A i \in EventsNamed("receiveMessage")' :
           /\ \E m \in messages' : m.id = events'[i].msg
           /\ events'[i].to = RoomEmit(GeneralRoom)
           /\ i \notin DOMAIN events
                => /\ reply'.op = "channelMessage" /\ reply'.result = "Created"
                   /\ \A m \in messages : m.id # events'[i].msg
      /\ (reply'.op = "channelMessage" /\ reply'.result # "Created")
           => events' = events /\ messages' = messages
      /\ (reply'.op = "channelMessage" /\ reply'.result = "Created")
           => \E m \in messages' \ messages :
                events' = events \o <<[event |-> "receiveMessage", msg |-> m.id,
                                       to |-> RoomEmit(GeneralRoom)]>>
    ]_vars

\* C14 witness: a post over the socket just failed at its save, after an
\* earlier post was stored and broadcast to both connections.
FailedPostAfterBroadcast ==
  /\ reply.op = "channelMessage" /\ reply.via = "socket" /\ reply.result = "Failed"
  /\ \E i \in EventsNamed("receiveMessage") : events[i].to = {1, 2}
  /\ Len(events) = Cardinality(messages)

\* The timestamp of channel message id.
TimestampOf(id) == (CHOOSE m \in messages : m.id = id).timestamp

\* C15: the receiveMessage events are emitted in the order of their messages'
\* timestamps, the order in which the history query returns them.
DeliveryMatchesLedgerOrder ==
  \A i \in EventsNamed("receiveMessage"), j \in EventsNamed("receiveMessage") :
    i < j => TimestampOf(events[i].msg) <= TimestampOf(events[j].msg)

\* The stored private message id.
PrivateMessageOf(id) == CHOOSE m \in privateMessages : m.id = id

\* C16: the receivePrivateMessage events any one connection gets for one
\* conversation come in the order of the messages' timestamps, the order in
\* which the history query returns them.
PrivateDeliveryMatchesLedgerOrder ==
  \A i \in EventsNamed("receivePrivateMessage"), j \in EventsNamed("receivePrivateMessage") :
    ( /\ i < j
      /\ events[i].to \cap events[j].to # {}
      /\ PrivateMessageOf(events[i].msg).conversation = PrivateMessageOf(events[j].msg).conversation )
      => PrivateMessageOf(events[i].msg).timestamp <= PrivateMessageOf(events[j].msg).timestamp

\* The connections that got an event for private message id in the events
\* from position n on.
DeliveredTo(evs, n, id) ==
  UNION {evs[i].to : i \in {k \in DOMAIN evs : k > n /\ evs[k].event = "receivePrivateMessage"
                                                    /\ evs[k].msg = id}}

\* C17: when a private send over the socket succeeds, the stored message goes
\* to every connection in the receiver's room and to every connection in the
\* sender's room.
PrivateMessageReachesBothRooms ==
  [][\A p \in Procs :
       ( /\ calls[p].pc = "pmSaveConversation" /\ calls[p].via = "socket"
         /\ calls'[p].pc = "idle" /\ reply'.result = "Created" )
       => /\ \E m \in privateMessages : m.id = calls[p].msg
          /\ (RoomEmit(UserRoom(calls[p].arg)) \cup RoomEmit(UserRoom(calls[p].actor)))
               \subseteq DeliveredTo(events', Len(events), calls[p].msg)
    ]_vars

\* C18: a private send that succeeds, over HTTP or over the socket, has stored
\* its message, has set the conversation's lastMessage and lastMessageAt, and
\* has delivered the message to every connection in the receiver's room.
EntryPointsAgree ==
  [][\A p \in Procs :
       ( /\ calls[p].pc = "pmSaveConversation"
         /\ calls'[p].pc = "idle" /\ reply'.result = "Created" )
       => /\ \E m \in privateMessages :
               m.id = calls[p].msg /\ m.sender = calls[p].actor /\ m.conversation = calls[p].conv
          /\ \E c \in conversations' :
               /\ c.id = calls[p].conv
               /\ c.lastMessage = calls[p].msg /\ c.lastMessageAt = calls[p].stamp
          /\ RoomEmit(UserRoom(calls[p].arg))
               \subseteq DeliveredTo(events', Len(events), calls[p].msg)
    ]_vars

\* C19: a connection whose handshake carries no credential or one that fails
\* verification never gets past the middleware and is in no room, and every
\* connection that is in a room has the verified user id of its token bound
\* to it.
OnlyVerifiedConnectionsAdmitted ==
  \A sk \in sockets :
    /\ sk.token.kind # "valid" => sk.state = "handshake" /\ sk.rooms = {}
    /\ sk.rooms # {} =>
         /\ sk.token.kind = "valid"
         /\ sk.userId = sk.token.userId /\ sk.userId # NoId

\* C19 witness: a handshake was just refused while an admitted connection is
\* in its rooms.
HandshakeRefused ==
  /\ reply.op = "connect" /\ reply.result = "AuthError"
  /\ \A sk \in sockets : sk.id # reply.arg
  /\ \E sk \in sockets : sk.state = "connected" /\ sk.rooms # {}

\* C20: every admitted connection of user U is in the general room and in
\* room U, so the events emitted to room U go to all of U's connections.
AdmittedConnectionsInBothRooms ==
  /\ \A sk \in sockets :
       sk.state = "connected" => {GeneralRoom, UserRoom(sk.userId)} \subseteq sk.rooms
  /\ \A u \in UserIds : SocketsOf(u) \subseteq RoomEmit(UserRoom(u))
  /\ \A u \in UserIds : SocketsOf(u) \subseteq RoomEmit(GeneralRoom)

\* C20 witness: a user has two admitted connections at once, after another
\* connection attempt has ended.
TwoConnectionsOfOneUser ==
  /\ \E u \in UserIds : Cardinality(SocketsOf(u)) = 2
  /\ Cardinality(sockets) < nextId.socket

\* C29: no stored channel message has content that is empty after trimming or
\* longer than 1000 characters, and no receiveMessage event carries one.
NoEmptyOrOverlongChannelMessage ==
  /\ \A m \in messages : m.content \notin {"empty", "long"}
  /\ \A i \in EventsNamed("receiveMessage") :
       \A m \in messages : m.id = events[i].msg => m.content \notin {"empty", "long"}

\* The result the delete route owes caller u for id, while no deletion of
\* that caller is under way: NotFound when no stored message has the id,
\* Forbidden when the message is another user's.
PrescribedDelete(u, id) ==
  IF \A m \in messages : m.id # id THEN "NotFound"
  ELSE IF \E m \in messages : m.id = id /\ m.sender # u THEN "Forbidden"
  ELSE "proceed"

\* The ids of the channel messages stored at some time and since deleted.
DeletedIds == (1 .. nextId.channel) \ {m.id : m \in messages}

\* C23: a delete that does not go through reports NotFound for an id that
\* names no stored message and Forbidden for another user's message, and
\* leaves the ledger unchanged; a message leaves the ledger only by a
\* successful delete by its sender, and a delete that reports success has
\* removed a stored message; a deleted message is never stored again, so no
\* getRecentMessages result holds it.
DeleteContract ==
  [][ /\ (reply'.op = "delete" /\ reply'.result # "OK")
           => /\ reply'.result = PrescribedDelete(reply'.actor, reply'.arg)
              /\ messages' = messages
      /\ \A m \in messages \ messages' :
           /\ reply'.op = "delete" /\ reply'.result = "OK"
           /\ reply'.arg = m.id /\ reply'.actor = m.sender
      /\ (reply'.op = "delete" /\ reply'.result = "OK")
           => /\ \E m \in messages : m.id = reply'.arg
              /\ \A m \in messages' : m.id # reply'.arg
      /\ DeletedIds \subseteq DeletedIds'
      /\ \A k \in Limits : \A recent \in getRecentMessages(k)' :
           \A i \in DOMAIN recent : recent[i].id \notin DeletedIds'
    ]_vars

\* C24: GET /messages with limit k lists min(k, number of stored messages)
\* messages, none of them older than a stored message left out, oldest first,
\* and in the order in which they were stored (messages with the same
\* timestamp may come in either order).
RecentMessagesContract ==
  reply.op = "recent" =>
    LET n == Cardinality(messages)
        len == IF reply.arg < n THEN reply.arg ELSE n
        listed == {reply.data[i] : i \in DOMAIN reply.data}
    IN /\ Len(reply.data) = len
       /\ listed \subseteq {m.id : m \in messages}
       /\ \A m \in messages : m.id \notin listed =>
            \A id \in listed : m.timestamp <= TimestampOf(id)
       /\ \A i, j \in DOMAIN reply.data :
            i < j => /\ TimestampOf(reply.data[i]) <= TimestampOf(reply.data[j])
                     /\ TimestampOf(reply.data[i]) < TimestampOf(reply.data[j])
                          => reply.data[i] < reply.data[j]

\* C21: when a connection closes it is in no room afterwards, and the step
\* leaves the friend requests, conversations, channel messages and private
\* messages as they were.
DisconnectionFrame ==
  [][\A sk \in sockets :
       (sk.state = "connected" /\ sk.id \notin {x.id : x \in {y \in sockets' : y.state = "connected"}})
         => /\ \A x \in sockets' : x.id = sk.id => x.rooms = {}
            /\ sk.id \notin RoomEmit(GeneralRoom)'
            /\ \A u \in UserIds : sk.id \notin RoomEmit(UserRoom(u))'
            /\ UNCHANGED <<requests, conversations, messages, privateMessages>>
    ]_vars

\* C21 witness: a connection has just closed while a handler invoked over it
\* is still running, with channel and private messages stored.
ClosedWhileHandling ==
  /\ reply.op = "disconnect"
  /\ \E p \in Procs : calls[p].pc # "idle" /\ calls[p].sock = reply.arg
  /\ Cardinality(messages) > 1 /\ privateMessages # {} /\ conversations # {}

\* C22: a stored channel message is never taken out of the ledger again, and
\* the post that stored it reports success, whatever came of the fan-out.
WriteOutcomeIndependentOfDelivery ==
  [][ /\ messages \subseteq messages'
      /\ \A m \in messages' \ messages :
           reply'.op = "channelMessage" /\ reply'.result = "Created"
    ]_vars

\* C30: a socket handler that fails sends its error event to the connection
\* the event came in on and to no other, emits no receive event, and no step
\* of a handler changes which connections are open or which rooms they are in.
SocketFailureContained ==
  [][ /\ ( /\ reply'.op \in {"channelMessage", "privateMessage"}
           /\ reply'.via = "socket" /\ reply'.result \notin Successes )
           => /\ reply'.to = SocketEmit(reply'.sock)
              /\ events' = events
      /\ calls' # calls => sockets' = sockets
    ]_vars

\* C30 witness: a private send to a user who is not a friend has just been
\* refused, after an earlier private send was delivered, and the error event
\* went to the sender's connection alone while another connection is open.
PrivateSendRefusedAfterDelivery ==
  /\ reply.op = "privateMessage" /\ reply.via = "socket" /\ reply.result = "Forbidden"
  /\ reply.to = {reply.sock}
  /\ EventsNamed("receivePrivateMessage") # {}
  /\ Cardinality(sockets) > 1

\* The steps of operation op: a call of it starts, goes on or responds.
StepOf(op) ==
  \/ reply'.op = op
  \/ \E p \in Procs : calls'[p] # calls[p] /\ calls'[p].op = op

\* C25: a removeFriend call never changes a Conversation or a PrivateMessage
\* record; all it takes away is one accepted friend request between the two
\* users.
RemoveFriendFrame ==
  [][StepOf("remove") =>
       /\ conversations' = conversations
       /\ privateMessages' = privateMessages
       /\ requests' \subseteq requests
       /\ \A d \in requests \ requests' :
            /\ d.status = "accepted"
            /\ reply'.result = "OK" /\ {d.sender, d.receiver} = {reply'.actor, reply'.arg}
    ]_vars

\* C25 witness: a removeFriend has just deleted the friendship of two users
\* who have a conversation with messages in it.
RemovedWithHistory ==
  /\ reply.op = "remove" /\ reply.result = "OK"
  /\ requests = {}
  /\ \E c \in ConversationMatches(reply.actor, reply.arg) :
       \E m \in privateMessages : m.conversation = c.id

\* The private messages stored between users a and b.
MessagesBetween(a, b) ==
  {m \in privateMessages : \E c \in ConversationMatches(a, b) : m.conversation = c.id}

\* C26: a history query between two users who have exchanged private messages
\* succeeds and lists messages of their conversation, whether or not they are
\* still friends; with no send under way it lists all of them.
HistorySurvivesRemoval ==
  reply.op = "history" =>
    ( MessagesBetween(reply.actor, reply.arg) # {}
        => /\ reply.result = "OK"
           /\ {reply.data[i] : i \in DOMAIN reply.data}
                \subseteq {m.id : m \in MessagesBetween(reply.actor, reply.arg)}
           /\ (\A p \in Procs : calls[p].op # "privateMessage")
                => Len(reply.data) = Cardinality(MessagesBetween(reply.actor, reply.arg)) )

\* C27: no step of a history query changes the conversations, and a query
\* whose findBetween finds no conversation answers with the empty list.
FindBetweenOnlyReads ==
  [][ /\ StepOf("history") => conversations' = conversations
      /\ \A p \in Procs :
           ( /\ calls[p].pc = "historyFindBetween" /\ calls'[p] # calls[p]
             /\ ConversationMatches(calls[p].actor, calls[p].arg) = {} )
             => /\ reply'.op = "history" /\ reply'.result = "OK" /\ reply'.data = <<>>
                /\ reply'.actor = calls[p].actor /\ reply'.arg = calls[p].arg
    ]_vars

\* C27 witness: two friends without a conversation: the history query has
\* just answered with the empty list and there is still no conversation.
EmptyHistoryOfFriends ==
  /\ reply.op = "history" /\ reply.result = "OK" /\ reply.data = <<>>
  /\ IsFriendship(RelationshipMatches(reply.actor, reply.arg))
  /\ conversations = {}

\* C28: with no private send in flight, the lastMessage of every conversation
\* that has messages is one of them, and no message of the conversation was
\* stored after it with a timestamp at least as late.
LastMessageIsLatest ==
  (\A p \in Procs : calls[p].op # "privateMessage") =>
    \A c \in conversations :
      LET appended == {m \in privateMessages : m.conversation = c.id} IN
      appended # {} =>
        \E last \in appended :
          /\ c.lastMessage = last.id
          /\ \A m \in appended : ~(m.id > last.id /\ m.timestamp >= last.timestamp)
\* C31: a refusal of a credential looks the same whatever made the check fail:
\* two refusals in a row at the same entry point carry the same status and the
\* same message, whether the credential was missing, malformed, expired or
\* wrongly signed.
SingleAuthFailureOutcome ==
  [][(reply.result = "AuthError" /\ reply'.result = "AuthError" /\ reply'.via = reply.via)
       => reply'.data = reply.data]_vars

\* C32: a stored PrivateMessage stays as it is: no step of a private send, a
\* channel post or delete, sendFriendRequest, accept, decline, cancel or
\* removeFriend changes or removes a private message that is in the ledger.
PrivateMessagesAppendOnly == [][\A m \in privateMessages : m \in privateMessages']_vars

\* A friendship was removed and a channel message deleted while private
\* messages of the two users are stored, one of them sent after the start.
RemovedAndDeletedNextToPrivateMessages ==
  /\ Cardinality(privateMessages) > 1
  /\ AcceptedMatches(1, 2) = {}
  /\ DeletedIds # {}
  /\ reply.op \in {"remove", "delete"} /\ reply.result = "OK"

\* The operations that respond to a friend request, and the status each sets.
ResponseOps == {"accept", "decline", "cancel"}

StatusSetBy(op) ==
  IF op = "accept" THEN "accepted" ELSE IF op = "decline" THEN "declined" ELSE "cancelled"

\* C33: of an accept and a cancel, or an accept and a decline, of the same
\* request that are in flight together, at most one reports success: when one
\* of them has just reported success while the other was past its lookup, the
\* other does not report success in the next step.
ConcurrentResponsesOneWinner ==
  [][(/\ reply.op \in ResponseOps /\ reply.result = "OK"
      /\ reply'.op \in ResponseOps /\ reply'.arg = reply.arg
      /\ "accept" \in {reply.op, reply'.op} /\ reply'.op # reply.op
      /\ \E q \in Procs : /\ calls[q].op = reply'.op /\ calls[q].arg = reply.arg
                           /\ calls[q].pc # "idle" /\ calls'[q].pc = "idle"
      /\ \E d \in requests : d.id = reply.arg /\ d.status = StatusSetBy(reply.op))
       => reply'.result # "OK"]_vars

\* C34: a PrivateMessage enters the ledger only while an accepted
\* FriendRequest between its sender and the other participant of its
\* conversation exists, also when a removeFriend of the pair overlaps the send.
PersistedOnlyBetweenFriends ==
  [][\A m \in privateMessages' \ privateMessages :
       \E c \in conversations :
         /\ c.id = m.conversation
         /\ AcceptedMatches(c.participants[1], c.participants[2]) # {}]_vars

\* C35: a user takes part in several conversations: when findOrCreate(A, C)
\* finds no conversation of A and C and goes on to create one, the create
\* succeeds whatever other conversations A or C takes part in, and the new
\* record is listed for A next to the ones listed before.
SeveralConversationsPerUser ==
  [][\A p \in Procs :
       (/\ calls[p].pc = "pmCreateConversation" /\ calls'[p] # calls[p]
        /\ ConversationMatches(calls[p].actor, calls[p].arg) = {})
         => /\ calls'[p].pc = "pmSaveMessage"
            /\ \E c \in conversations' \ conversations :
                 /\ c.participants = SortedParticipants(calls[p].actor, calls[p].arg)
                 /\ findForUser(calls[p].actor)' = findForUser(calls[p].actor) \cup {c}]_vars

\* C36: a private send that reports failure has left no PrivateMessage in the
\* ledger: when an invocation ends with a result that is not a success, the
\* message it saved, if it saved one, is not stored.
FailedPrivateSendStoresNothing ==
  [][\A p \in Procs :
       (/\ calls[p].op = "privateMessage" /\ calls'[p].pc = "idle"
        /\ reply'.op = "privateMessage" /\ reply'.result \notin Successes)
         => \A m \in privateMessages' : m.id # calls[p].msg]_vars

\* C38: whenever no operation is in flight, the sender and the receiver of
\* every FriendRequest and both participants of every Conversation are
\* existing users.
NoDanglingUserReferences ==
  (\A p \in Procs : calls[p].pc = "idle")
    => /\ \A d \in requests : {d.sender, d.receiver} \subseteq users
       /\ \A c \in conversations : {c.participants[1], c.participants[2]} \subseteq users

\* C37: after a request from A to B was declined or cancelled, a new proposal
\* is treated alike in both directions: with no call in flight and every
\* record between the two declined or cancelled, sendFriendRequest(A, B) can
\* succeed exactly when sendFriendRequest(B, A) can.
ReproposalSymmetric ==
  (\A p \in Procs : calls[p].pc = "idle")
    => \A d \in requests :
         (\A e \in RelationshipMatches(d.sender, d.receiver) :
            e.status \in {"declined", "cancelled"})
           => (SendCanSucceedIn(requests, d.sender, d.receiver)
                 <=> SendCanSucceedIn(requests, d.receiver, d.sender))

\* C39: verify-reset-code with a valid code succeeds and consumes nothing; a
\* reset-password with a valid code goes on to set the new password and
\* succeeds; and once a reset-password has succeeded, the code it used is not
\* accepted for another reset of that account.
ResetProtocol ==
  [][/\ \A p \in Procs :
          (calls[p].pc = "verifyCode" /\ calls'[p].pc = "idle")
            => /\ verificationCodes' = verificationCodes
               /\ (UnexpiredCodes(calls[p].actor, calls[p].code) # {} => reply'.result = "OK")
     /\ \A p \in Procs :
          (/\ calls[p].pc = "resetVerifyCode" /\ calls'[p] # calls[p]
           /\ UnexpiredCodes(calls[p].actor, calls[p].code) # {})
            => calls'[p].pc = "resetSavePassword"
     /\ \A p \in Procs :
          (calls[p].op = "resetPassword" /\ calls'[p].pc = "idle" /\ reply'.result = "OK")
            => /\ passwords'[calls[p].actor] = calls[p].password
               /\ \A d \in verificationCodes' :
                    ~(d.email = calls[p].actor /\ d.code = calls[p].code)]_vars

====
